---- MODULE Spec2Model ----
(***************************************************************************)
(* Model of the PCI query-flow agent: the keyword classifier and the       *)
(* suggestion catalog of src/src/pci_mock_logic.py, and the three-node     *)
(* pipeline and run_agent of src/src/langgraph_agent.py.                   *)
(*                                                                         *)
(* Text is a sequence of one-character strings, so that lower() and the   *)
(* substring operator `in` are computed character by character.            *)
(***************************************************************************)
EXTENDS Integers, Sequences, FiniteSets, TLC

\* Number of run_agent calls explored on one agent instance.
MaxRuns == 2

(***************************************************************************)
(* Text primitives: str.lower(), `k in s`, "\n".join(...)                  *)
(***************************************************************************)
UpperChars ==
  <<"A","B","C","D","E","F","G","H","I","J","K","L","M",
    "N","O","P","Q","R","S","T","U","V","W","X","Y","Z">>

LowerChars ==
  <<"a","b","c","d","e","f","g","h","i","j","k","l","m",
    "n","o","p","q","r","s","t","u","v","w","x","y","z">>

LowerChar(c) ==
  IF \E i \in 1..Len(UpperChars) : UpperChars[i] = c
    THEN LowerChars[CHOOSE i \in 1..Len(UpperChars) : UpperChars[i] = c]
    ELSE c

\* A lower() that forgets to fold the case.
LowerKeepsCase(s) ==
  s

Lower(s) ==
  [i \in 1..Len(s) |-> LowerChar(s[i])]

\* Python's `k in s` on strings.
Contains(s, k) ==
  \E i \in 0..(Len(s) - Len(k)) : SubSeq(s, i + 1, i + Len(k)) = k

RECURSIVE Join(_, _)
Join(sep, parts) ==
  IF Len(parts) = 0 THEN <<>>
  ELSE IF Len(parts) = 1 THEN parts[1]
  ELSE parts[1] \o sep \o Join(sep, Tail(parts))

(***************************************************************************)
(* Text constants of the source                                            *)
(***************************************************************************)
\* KW_cancel  is the text 'cancel'
KW_cancel ==
  <<"c","a","n","c","e","l">>

\* KW_unsubscri  is the text 'unsubscri'
KW_unsubscri ==
  <<"u","n","s","u","b","s","c","r","i">>

\* KW_leave  is the text 'leave'
KW_leave ==
  <<"l","e","a","v","e">>

\* KW_price  is the text 'price'
KW_price ==
  <<"p","r","i","c","e">>

\* KW_discount  is the text 'discount'
KW_discount ==
  <<"d","i","s","c","o","u","n","t">>

\* KW_deal  is the text 'deal'
KW_deal ==
  <<"d","e","a","l">>

\* KW_premium  is the text 'premium'
KW_premium ==
  <<"p","r","e","m","i","u","m">>

\* KW_upgrade  is the text 'upgrade'
KW_upgrade ==
  <<"u","p","g","r","a","d","e">>

\* KW_high_end  is the text 'high-end'
KW_high_end ==
  <<"h","i","g","h","-","e","n","d">>

\* KW_new_user  is the text 'new user'
KW_new_user ==
  <<"n","e","w"," ","u","s","e","r">>

\* KW_first_time  is the text 'first time'
KW_first_time ==
  <<"f","i","r","s","t"," ","t","i","m","e">>

\* KW_how_to_start  is the text 'how to start'
KW_how_to_start ==
  <<"h","o","w"," ","t","o"," ","s","t","a","r","t">>

\* SUG_churn_risk  is the text "We understand your concern. Would you like to speak with a retention specialist or would a 20% discount on your next month's service help?"
SUG_churn_risk ==
  <<"W","e"," ","u","n","d","e","r","s","t","a","n","d"," ","y","o","u","r"," ","c","o","n","c",
    "e","r","n","."," ","W","o","u","l","d"," ","y","o","u"," ","l","i","k","e"," ","t","o"," ",
    "s","p","e","a","k"," ","w","i","t","h"," ","a"," ","r","e","t","e","n","t","i","o","n"," ",
    "s","p","e","c","i","a","l","i","s","t"," ","o","r"," ","w","o","u","l","d"," ","a"," ","2",
    "0","%"," ","d","i","s","c","o","u","n","t"," ","o","n"," ","y","o","u","r"," ","n","e","x",
    "t"," ","m","o","n","t","h","'","s"," ","s","e","r","v","i","c","e"," ","h","e","l","p","?">>

\* SUG_price_sensitive  is the text "We have several budget-friendly options available. Would you be interested in our 'Basic Plan' or current promotional deals?"
SUG_price_sensitive ==
  <<"W","e"," ","h","a","v","e"," ","s","e","v","e","r","a","l"," ","b","u","d","g","e","t","-",
    "f","r","i","e","n","d","l","y"," ","o","p","t","i","o","n","s"," ","a","v","a","i","l","a",
    "b","l","e","."," ","W","o","u","l","d"," ","y","o","u"," ","b","e"," ","i","n","t","e","r",
    "e","s","t","e","d"," ","i","n"," ","o","u","r"," ","'","B","a","s","i","c"," ","P","l","a",
    "n","'"," ","o","r"," ","c","u","r","r","e","n","t"," ","p","r","o","m","o","t","i","o","n",
    "a","l"," ","d","e","a","l","s","?">>

\* SUG_high_value_prospect  is the text "Based on your interest, our 'Premium Plus' package offers exclusive features and priority support. Would you like to know more?"
SUG_high_value_prospect ==
  <<"B","a","s","e","d"," ","o","n"," ","y","o","u","r"," ","i","n","t","e","r","e","s","t",",",
    " ","o","u","r"," ","'","P","r","e","m","i","u","m"," ","P","l","u","s","'"," ","p","a","c",
    "k","a","g","e"," ","o","f","f","e","r","s"," ","e","x","c","l","u","s","i","v","e"," ","f",
    "e","a","t","u","r","e","s"," ","a","n","d"," ","p","r","i","o","r","i","t","y"," ","s","u",
    "p","p","o","r","t","."," ","W","o","u","l","d"," ","y","o","u"," ","l","i","k","e"," ","t",
    "o"," ","k","n","o","w"," ","m","o","r","e","?">>

\* SUG_new_customer  is the text "Welcome! To help you get started, we recommend exploring our interactive tutorial or checking out our 'Quick Start Guide'."
SUG_new_customer ==
  <<"W","e","l","c","o","m","e","!"," ","T","o"," ","h","e","l","p"," ","y","o","u"," ","g","e",
    "t"," ","s","t","a","r","t","e","d",","," ","w","e"," ","r","e","c","o","m","m","e","n","d",
    " ","e","x","p","l","o","r","i","n","g"," ","o","u","r"," ","i","n","t","e","r","a","c","t",
    "i","v","e"," ","t","u","t","o","r","i","a","l"," ","o","r"," ","c","h","e","c","k","i","n",
    "g"," ","o","u","t"," ","o","u","r"," ","'","Q","u","i","c","k"," ","S","t","a","r","t"," ",
    "G","u","i","d","e","'",".">>

\* SUG_standard  is the text 'I can help with that. What specific information or product are you looking for?'
SUG_standard ==
  <<"I"," ","c","a","n"," ","h","e","l","p"," ","w","i","t","h"," ","t","h","a","t","."," ","W",
    "h","a","t"," ","s","p","e","c","i","f","i","c"," ","i","n","f","o","r","m","a","t","i","o",
    "n"," ","o","r"," ","p","r","o","d","u","c","t"," ","a","r","e"," ","y","o","u"," ","l","o",
    "o","k","i","n","g"," ","f","o","r","?">>

\* SUG_unknown  is the text "I'm not sure what to suggest based on that segment, but I'm here to help with your query."
SUG_unknown ==
  <<"I","'","m"," ","n","o","t"," ","s","u","r","e"," ","w","h","a","t"," ","t","o"," ","s","u",
    "g","g","e","s","t"," ","b","a","s","e","d"," ","o","n"," ","t","h","a","t"," ","s","e","g",
    "m","e","n","t",","," ","b","u","t"," ","I","'","m"," ","h","e","r","e"," ","t","o"," ","h",
    "e","l","p"," ","w","i","t","h"," ","y","o","u","r"," ","q","u","e","r","y",".">>

\* ERR_no_final_state  is the text 'An error occurred in the LangGraph agent.'
ERR_no_final_state ==
  <<"A","n"," ","e","r","r","o","r"," ","o","c","c","u","r","r","e","d"," ","i","n"," ","t","h",
    "e"," ","L","a","n","g","G","r","a","p","h"," ","a","g","e","n","t",".">>

\* TYPE_human  is the text 'human'
TYPE_human ==
  <<"h","u","m","a","n">>

\* TYPE_ai  is the text 'ai'
TYPE_ai ==
  <<"a","i">>

\* TYPE_system  is the text 'system'
TYPE_system ==
  <<"s","y","s","t","e","m">>

\* IN_pricing  is the text 'Tell me about pricing'
IN_pricing ==
  <<"T","e","l","l"," ","m","e"," ","a","b","o","u","t"," ","p","r","i","c","i","n","g">>

\* IN_cancel_price  is the text 'CANCEL it, the price is too high'
IN_cancel_price ==
  <<"C","A","N","C","E","L"," ","i","t",","," ","t","h","e"," ","p","r","i","c","e"," ","i","s",
    " ","t","o","o"," ","h","i","g","h">>

\* IN_leave  is the text 'I want to leave'
IN_leave ==
  <<"I"," ","w","a","n","t"," ","t","o"," ","l","e","a","v","e">>

\* IN_hi  is the text 'hi'
IN_hi ==
  <<"h","i">>

\* IN_upgrade_deal  is the text 'Upgrade deal?'
IN_upgrade_deal ==
  <<"U","p","g","r","a","d","e"," ","d","e","a","l","?">>

\* IN_first_time_premium  is the text 'first time here, premium?'
IN_first_time_premium ==
  <<"f","i","r","s","t"," ","t","i","m","e"," ","h","e","r","e",","," ","p","r","e","m","i","u",
    "m","?">>

\* IN_how_to_start  is the text 'How to start?'
IN_how_to_start ==
  <<"H","o","w"," ","t","o"," ","s","t","a","r","t","?">>

\* IN_high_end  is the text 'Any high-end plan for a new user?'
IN_high_end ==
  <<"A","n","y"," ","h","i","g","h","-","e","n","d"," ","p","l","a","n"," ","f","o","r"," ","a",
    " ","n","e","w"," ","u","s","e","r","?">>

\* OUT_dont_leave  is the text 'Please do not LEAVE us'
OUT_dont_leave ==
  <<"P","l","e","a","s","e"," ","d","o"," ","n","o","t"," ","L","E","A","V","E"," ","u","s">>

\* OUT_ok  is the text 'Sure, happy to help'
OUT_ok ==
  <<"S","u","r","e",","," ","h","a","p","p","y"," ","t","o"," ","h","e","l","p">>

\* SUM_a  is the text 'The human asks; the AI answers'
SUM_a ==
  <<"T","h","e"," ","h","u","m","a","n"," ","a","s","k","s",";"," ","t","h","e"," ","A","I"," ",
    "a","n","s","w","e","r","s">>

\* SUM_b  is the text 'The human wants to leave'
SUM_b ==
  <<"T","h","e"," ","h","u","m","a","n"," ","w","a","n","t","s"," ","t","o"," ","l","e","a","v",
    "e">>

\* APOLOGY  is the text "I'm sorry, I encountered an error. Please try again."
APOLOGY ==
  <<"I","'","m"," ","s","o","r","r","y",","," ","I"," ","e","n","c","o","u","n","t","e","r","e",
    "d"," ","a","n"," ","e","r","r","o","r","."," ","P","l","e","a","s","e"," ","t","r","y"," ",
    "a","g","a","i","n",".">>

(***************************************************************************)
(* pci_mock_logic.py                                                       *)
(***************************************************************************)
Segments ==
  {"churn_risk", "price_sensitive", "high_value_prospect", "new_customer", "standard"}

\* The classifier with rule 2 tested before rule 1.
GetCustomerSegmentPriceFirst(user_query, chat_history_str) ==
  LET query_lower == Lower(user_query)
      history_lower == Lower(chat_history_str)
  IN  IF Contains(query_lower, KW_price) \/ Contains(query_lower, KW_discount)
         \/ Contains(query_lower, KW_deal)
        THEN "price_sensitive"
      ELSE IF Contains(query_lower, KW_cancel) \/ Contains(query_lower, KW_unsubscri)
         \/ Contains(history_lower, KW_leave)
        THEN "churn_risk"
      ELSE IF Contains(query_lower, KW_premium) \/ Contains(query_lower, KW_upgrade)
         \/ Contains(history_lower, KW_high_end)
        THEN "high_value_prospect"
      ELSE IF Contains(history_lower, KW_new_user) \/ Contains(history_lower, KW_first_time)
         \/ Contains(query_lower, KW_how_to_start)
        THEN "new_customer"
      ELSE "standard"

\* The classifier looking for "leave" in the query instead of the history.
GetCustomerSegmentLeaveInQuery(user_query, chat_history_str) ==
  LET query_lower == Lower(user_query)
      history_lower == Lower(chat_history_str)
  IN  IF Contains(query_lower, KW_cancel) \/ Contains(query_lower, KW_unsubscri)
         \/ Contains(query_lower, KW_leave)
        THEN "churn_risk"
      ELSE IF Contains(query_lower, KW_price) \/ Contains(query_lower, KW_discount)
         \/ Contains(query_lower, KW_deal)
        THEN "price_sensitive"
      ELSE IF Contains(query_lower, KW_premium) \/ Contains(query_lower, KW_upgrade)
         \/ Contains(history_lower, KW_high_end)
        THEN "high_value_prospect"
      ELSE IF Contains(history_lower, KW_new_user) \/ Contains(history_lower, KW_first_time)
         \/ Contains(query_lower, KW_how_to_start)
        THEN "new_customer"
      ELSE "standard"

GetCustomerSegment(user_query, chat_history_str) ==
  LET query_lower == Lower(user_query)
      history_lower == Lower(chat_history_str)
  IN  IF Contains(query_lower, KW_cancel) \/ Contains(query_lower, KW_unsubscri)
         \/ Contains(history_lower, KW_leave)
        THEN "churn_risk"
      ELSE IF Contains(query_lower, KW_price) \/ Contains(query_lower, KW_discount)
         \/ Contains(query_lower, KW_deal)
        THEN "price_sensitive"
      ELSE IF Contains(query_lower, KW_premium) \/ Contains(query_lower, KW_upgrade)
         \/ Contains(history_lower, KW_high_end)
        THEN "high_value_prospect"
      ELSE IF Contains(history_lower, KW_new_user) \/ Contains(history_lower, KW_first_time)
         \/ Contains(query_lower, KW_how_to_start)
        THEN "new_customer"
      ELSE "standard"

GetSuggestion(customer_segment) ==
  IF customer_segment = "churn_risk" THEN SUG_churn_risk
  ELSE IF customer_segment = "price_sensitive" THEN SUG_price_sensitive
  ELSE IF customer_segment = "high_value_prospect" THEN SUG_high_value_prospect
  ELSE IF customer_segment = "new_customer" THEN SUG_new_customer
  ELSE IF customer_segment = "standard" THEN SUG_standard
  ELSE SUG_unknown

(***************************************************************************)
(* Messages and the conversation memory                                    *)
(***************************************************************************)
HumanMessage(content) ==
  [type |-> TYPE_human, content |-> content]

AIMessage(content) ==
  [type |-> TYPE_ai, content |-> content]

SystemMessage(content) ==
  [type |-> TYPE_system, content |-> content]

\* "\n".join([f"{msg.type}: {msg.content}" for msg in chat_history_from_memory])
RenderHistory(msgs) ==
  Join(<<"\n">>, [i \in 1..Len(msgs) |-> msgs[i].type \o <<":", " ">> \o msgs[i].content])

\* The f-string of the system message: fixed text around the two interpolated values.
SystemInstruction(customer_segment, suggestion) ==
  << "You are a helpful customer service AI. The user's query has been analyzed, and their segment is '",
     customer_segment,
     "'. A preliminary suggestion is: '",
     suggestion,
     "'. Based on this, and the conversation history, formulate a friendly and helpful response. If the preliminary suggestion is sufficient, you can incorporate it directly. Otherwise, elaborate or rephrase to be most helpful to the user." >>
(***************************************************************************)
(* Inputs explored                                                         *)
(***************************************************************************)
\* User inputs handed to run_agent.
RunInputs ==
  {IN_pricing, IN_cancel_price, IN_leave, IN_hi}

\* Texts the completion service may return for the Respond call.
LLMResponses ==
  {OUT_dont_leave, OUT_ok}

\* Texts the completion service may return as the new running summary.
Summaries ==
  {SUM_a, SUM_b}

\* Arguments of the constructor.
MemoryTypes ==
  {"buffer", "summary", "window"}

\* Queries and histories on which the two pure functions are applied.
PureQueries ==
  {IN_pricing, IN_cancel_price, IN_leave, IN_hi, IN_upgrade_deal,
   IN_first_time_premium, IN_how_to_start, IN_high_end}

PureHistories ==
  {<<>>}
  \cup {RenderHistory(<<HumanMessage(q), AIMessage(r)>>) :
          q \in PureQueries, r \in LLMResponses}

(***************************************************************************)
(* State                                                                   *)
(***************************************************************************)
VARIABLES
  env,          \* which credentials os.getenv finds (set and non-empty)
  agent,        \* "none" | "ready" | "failed": outcome of LangGraphAgent(...)
  llm,          \* self.llm: "none" | "gemini" | "openai"
  memory_type,  \* the memory_type the agent was built with
  memory,       \* what self.memory.load_memory_variables({})["chat_history"] returns
  pc,           \* position of the current run_agent call
  user_input,   \* argument of the current run_agent call
  state,        \* the GraphState threaded through the nodes
  final_state,  \* run_agent's local: <<>> is None, <<s>> the last streamed state
  llm_request,  \* <<>>, or <<r>>: the request this call sent to the completion service
  result,       \* what the last call gave its caller: a returned text or an exception
  calls,        \* history: the user_input of every run_agent call made
  returned,     \* history: (input, output) of every run_agent call that returned
  mem_writes    \* history: save_context calls completed within the current call

vars ==
  <<env, agent, llm, memory_type, memory, pc, user_input, state, final_state,
    llm_request, result, calls, returned, mem_writes>>

\* What a call gave its caller: nothing yet, a returned text, or an exception.
NoResult ==
  [kind |-> "none", value |-> <<>>, error |-> ""]

Returned(text) ==
  [kind |-> "returned", value |-> text, error |-> ""]

Raised(exc) ==
  [kind |-> "raised", value |-> <<>>, error |-> exc]

ServiceError ==
  "completion service error"

\* GraphState(messages=..., user_query=..., customer_segment="", suggestion="", error="")
\* chat_history_str is a key the constructor call does not set: <<>> is "absent".
GraphState(messages, user_query) ==
  [messages |-> messages, user_query |-> user_query, customer_segment |-> "",
   suggestion |-> <<>>, error |-> <<>>, chat_history_str |-> <<>>]

\* state.get('chat_history_str', '')
StateGetHistory(s) ==
  IF s.chat_history_str = <<>> THEN <<>> ELSE s.chat_history_str[1]

Last(s) ==
  s[Len(s)]

\* self.memory.load_memory_variables({})["chat_history"]
LoadMemory ==
  memory

\* save_context that stores the assistant turn before the user turn.
SaveContextSwapped(mem, input, output) ==
  mem \o <<AIMessage(output), HumanMessage(input)>>

\* ConversationBufferMemory.save_context({"input": ...}, {"output": ...})
SaveContext(mem, input, output) ==
  mem \o <<HumanMessage(input), AIMessage(output)>>

Init ==
  /\ env \in [GOOGLE_API_KEY : BOOLEAN, OPENAI_API_KEY : BOOLEAN]
  /\ agent = "none"
  /\ llm = "none"
  /\ memory_type = "none"
  /\ memory = <<>>
  /\ pc = "idle"
  /\ user_input = <<>>
  /\ state = GraphState(<<>>, <<>>)
  /\ final_state = <<>>
  /\ llm_request = <<>>
  /\ result = NoResult
  /\ calls = <<>>
  /\ returned = <<>>
  /\ mem_writes = 0

(***************************************************************************)
(* LangGraphAgent.__init__                                                 *)
(***************************************************************************)
\* A constructor that accepts every memory_type and falls back to the buffer.
ConfigErrorNoModeCheck(use_gemini, mtype) ==
  IF use_gemini /\ ~env.GOOGLE_API_KEY THEN "GOOGLE_API_KEY environment variable not set."
  ELSE IF ~use_gemini /\ ~env.OPENAI_API_KEY THEN "OPENAI_API_KEY environment variable not set."
  ELSE ""

\* The ValueError message __init__ raises for these arguments, "" when it raises none.
ConfigError(use_gemini, mtype) ==
  IF use_gemini /\ ~env.GOOGLE_API_KEY THEN "GOOGLE_API_KEY environment variable not set."
  ELSE IF ~use_gemini /\ ~env.OPENAI_API_KEY THEN "OPENAI_API_KEY environment variable not set."
  ELSE IF mtype \notin {"buffer", "summary"} THEN "Invalid memory_type. Choose 'buffer' or 'summary'."
  ELSE ""

Construct(use_gemini, mtype) ==
  /\ agent = "none"
  /\ IF ConfigError(use_gemini, mtype) # ""
       THEN /\ agent' = "failed"
            /\ result' = Raised(ConfigError(use_gemini, mtype))
            /\ UNCHANGED <<llm, memory_type, memory>>
       ELSE /\ agent' = "ready"
            /\ llm' = IF use_gemini THEN "gemini" ELSE "openai"
            /\ memory_type' = mtype
            /\ memory' = IF mtype = "buffer" THEN <<>> ELSE <<SystemMessage(<<>>)>>
            /\ UNCHANGED result
  /\ UNCHANGED <<env, pc, user_input, state, final_state, llm_request, calls,
                 returned, mem_writes>>

(***************************************************************************)
(* run_agent and the three nodes                                           *)
(***************************************************************************)
RunAgent(q) ==
  /\ agent = "ready"
  /\ pc = "idle"
  /\ Len(calls) < MaxRuns
  /\ user_input' = q
  /\ state' = GraphState(LoadMemory \o <<HumanMessage(q)>>, q)
  /\ final_state' = <<>>
  /\ llm_request' = <<>>
  /\ result' = NoResult
  /\ calls' = Append(calls, q)
  /\ mem_writes' = 0
  /\ pc' = "query_processing"
  /\ UNCHANGED <<env, agent, llm, memory_type, memory, returned>>

QueryProcessingNode ==
  /\ pc = "query_processing"
  /\ state' = [state EXCEPT !.user_query = Last(state.messages).content,
                            !.chat_history_str = <<RenderHistory(LoadMemory)>>]
  /\ final_state' = <<state'>>
  /\ pc' = "customer_segmentation"
  /\ UNCHANGED <<env, agent, llm, memory_type, memory, user_input, llm_request,
                 result, calls, returned, mem_writes>>

CustomerSegmentationNode ==
  /\ pc = "customer_segmentation"
  /\ state' = [state EXCEPT !.customer_segment =
                 GetCustomerSegment(state.user_query, StateGetHistory(state))]
  /\ final_state' = <<state'>>
  /\ pc' = "suggestion_generation"
  /\ UNCHANGED <<env, agent, llm, memory_type, memory, user_input, llm_request,
                 result, calls, returned, mem_writes>>

\* A request built from the stored history alone, without the current user message.
LLMRequestHistoryOnly(s, suggestion) ==
  [messages |-> LoadMemory,
   system |-> SystemInstruction(s.customer_segment, suggestion)]

\* chain.invoke({"messages": current_messages, ...}): the messages placeholder, then
\* the system message.
LLMRequest(s, suggestion) ==
  [messages |-> s.messages,
   system |-> SystemInstruction(s.customer_segment, suggestion)]

\* The completion service answers: the node appends the answer and ends.
SuggestionNodeResponds(response) ==
  /\ pc = "suggestion_generation"
  /\ agent = "ready"
  /\ LET suggestion == GetSuggestion(state.customer_segment)
     IN  /\ llm_request' = <<LLMRequest(state, suggestion)>>
         /\ state' = [state EXCEPT !.suggestion = suggestion,
                                   !.messages = Append(@, AIMessage(response))]
  /\ final_state' = <<state'>>
  /\ pc' = "finish"
  /\ UNCHANGED <<env, agent, llm, memory_type, memory, user_input, result, calls,
                 returned, mem_writes>>

\* The completion service fails: chain.invoke raises, nothing catches it in the node,
\* in the graph or in run_agent, and the call ends with the exception.
SuggestionNodeRaises ==
  /\ pc = "suggestion_generation"
  /\ agent = "ready"
  /\ LET suggestion == GetSuggestion(state.customer_segment)
     IN  /\ llm_request' = <<LLMRequest(state, suggestion)>>
         /\ state' = [state EXCEPT !.suggestion = suggestion]
  /\ result' = Raised(ServiceError)
  /\ pc' = "idle"
  /\ UNCHANGED <<env, agent, llm, memory_type, memory, user_input, final_state, calls,
                 returned, mem_writes>>

\* Lines 168-177 and 186: the text run_agent is about to return. final_state is the
\* last value of the stream loop, which the source takes to be the graph state
\* ("The .stream() method yields the state at each step").
AiResponse(fs) ==
  IF fs # <<>>
    THEN IF fs[1].messages # <<>> /\ Last(fs[1].messages).type = TYPE_ai
           THEN Last(fs[1].messages).content
           ELSE fs[1].suggestion
    ELSE ERR_no_final_state

\* Buffer memory: save the turn pair and return.
RunAgentReturns ==
  /\ pc = "finish"
  /\ memory_type = "buffer"
  /\ IF final_state # <<>>
       THEN /\ memory' = SaveContext(memory, user_input, AiResponse(final_state))
            /\ mem_writes' = mem_writes + 1
       ELSE UNCHANGED <<memory, mem_writes>>
  /\ result' = Returned(AiResponse(final_state))
  /\ returned' = Append(returned, [input |-> user_input, output |-> AiResponse(final_state)])
  /\ pc' = "idle"
  /\ UNCHANGED <<env, agent, llm, memory_type, user_input, state, final_state,
                 llm_request, calls>>

\* Summary memory: save_context asks the completion service for the new running
\* summary, which replaces the stored one.
RunAgentReturnsSummary(summary) ==
  /\ pc = "finish"
  /\ memory_type = "summary"
  /\ IF final_state # <<>>
       THEN /\ memory' = <<SystemMessage(summary)>>
            /\ mem_writes' = mem_writes + 1
       ELSE UNCHANGED <<memory, mem_writes>>
  /\ result' = Returned(AiResponse(final_state))
  /\ returned' = Append(returned, [input |-> user_input, output |-> AiResponse(final_state)])
  /\ pc' = "idle"
  /\ UNCHANGED <<env, agent, llm, memory_type, user_input, state, final_state,
                 llm_request, calls>>

\* Summary memory: the summarising call fails inside save_context.
RunAgentSummaryRaises ==
  /\ pc = "finish"
  /\ memory_type = "summary"
  /\ final_state # <<>>
  /\ result' = Raised(ServiceError)
  /\ pc' = "idle"
  /\ UNCHANGED <<env, agent, llm, memory_type, memory, user_input, state, final_state,
                 llm_request, calls, returned, mem_writes>>

Next ==
  \/ \E use_gemini \in BOOLEAN, mtype \in MemoryTypes : Construct(use_gemini, mtype)
  \/ \E q \in RunInputs : RunAgent(q)
  \/ QueryProcessingNode
  \/ CustomerSegmentationNode
  \/ \E response \in LLMResponses : SuggestionNodeResponds(response)
  \/ SuggestionNodeRaises
  \/ RunAgentReturns
  \/ \E summary \in Summaries : RunAgentReturnsSummary(summary)
  \/ RunAgentSummaryRaises

Spec ==
  Init /\ [][Next]_vars

(***************************************************************************)
(* The two pure functions applied to drawn inputs: the pipeline entered at *)
(* the Classify stage with any query and any history text.                 *)
(***************************************************************************)
PureInit ==
  /\ env = [GOOGLE_API_KEY |-> TRUE, OPENAI_API_KEY |-> FALSE]
  /\ agent = "ready"
  /\ llm = "gemini"
  /\ memory_type = "buffer"
  /\ memory = <<>>
  /\ pc = "customer_segmentation"
  /\ \E q \in PureQueries, h \in PureHistories :
       /\ user_input = q
       /\ state = [GraphState(<<HumanMessage(q)>>, q) EXCEPT !.chat_history_str = <<h>>]
  /\ final_state = <<>>
  /\ llm_request = <<>>
  /\ result = NoResult
  /\ calls = <<>>
  /\ returned = <<>>
  /\ mem_writes = 0

\* Lines 100-103 of suggestion_node: the catalog lookup alone.
SuggestionLookup ==
  /\ pc = "suggestion_generation"
  /\ state' = [state EXCEPT !.suggestion = GetSuggestion(state.customer_segment)]
  /\ pc' = "lookup_done"
  /\ UNCHANGED <<env, agent, llm, memory_type, memory, user_input, final_state,
                 llm_request, result, calls, returned, mem_writes>>

PureNext ==
  \/ CustomerSegmentationNode
  \/ SuggestionLookup

PureSpec ==
  PureInit /\ [][PureNext]_vars

(***************************************************************************)
(* Properties                                                              *)
(***************************************************************************)
\* A run_agent call has been made on the agent and has ended.
RunEnded ==
  agent = "ready" /\ pc = "idle" /\ calls # <<>>

\* The completion call of the Respond stage failed in the call that just ended.
CompletionFailed ==
  result.error = ServiceError

\* Some stored turn contains "leave", in any case.
LeaveStored ==
  \E i \in 1..Len(memory) : Contains(Lower(memory[i].content), KW_leave)

\* The five rules of the classifier on lower-cased texts, in their order.
RuleMatches(i, q, h) ==
  CASE i = 1 -> Contains(q, KW_cancel) \/ Contains(q, KW_unsubscri) \/ Contains(h, KW_leave)
    [] i = 2 -> Contains(q, KW_price) \/ Contains(q, KW_discount) \/ Contains(q, KW_deal)
    [] i = 3 -> Contains(q, KW_premium) \/ Contains(q, KW_upgrade) \/ Contains(h, KW_high_end)
    [] i = 4 -> Contains(h, KW_new_user) \/ Contains(h, KW_first_time)
                  \/ Contains(q, KW_how_to_start)
    [] OTHER -> TRUE

RuleLabels ==
  <<"churn_risk", "price_sensitive", "high_value_prospect", "new_customer", "standard">>

\* C1: every run_agent call that has ended returned a non-empty text, never an
\* exception; when the completion call failed, the returned text is the apology.
C1_RunAlwaysReturnsText ==
  RunEnded =>
    /\ result.kind = "returned"
    /\ result.value # <<>>
    /\ (CompletionFailed => result.value = APOLOGY)

\* C2: after a call whose completion call failed, the buffer memory ends with the
\* user turn of that call followed by an assistant turn carrying the fallback text,
\* and every ended call has added two turns.
C2_FailedRunStillSaved ==
  (RunEnded /\ memory_type = "buffer") =>
    /\ Len(memory) = 2 * Len(calls)
    /\ (CompletionFailed =>
          /\ memory[Len(memory) - 1] = HumanMessage(user_input)
          /\ memory[Len(memory)] = AIMessage(APOLOGY))

\* C3: on the query "Tell me about pricing" with an empty history the segment is
\* price_sensitive and the draft suggestion is the price_sensitive catalog string.
C3_PricingIsPriceSensitive ==
  (pc = "lookup_done" /\ state.user_query = IN_pricing /\ StateGetHistory(state) = <<>>) =>
    /\ state.customer_segment = "price_sensitive"
    /\ state.suggestion = SUG_price_sensitive

\* C4: the segment computed for (query, history) is the label of the first rule, in
\* the order churn_risk, price_sensitive, high_value_prospect, new_customer, standard,
\* that matches the lower-cased texts; a query containing "cancel" in any case gives
\* churn_risk whatever the history and the other keywords; the label is one of the five.
C4_FirstMatchingRuleWins ==
  pc \in {"suggestion_generation", "lookup_done"} =>
    LET q == Lower(state.user_query)
        h == Lower(StateGetHistory(state))
        seg == state.customer_segment
    IN  /\ seg \in Segments
        /\ \A i \in 1..5 :
             seg = RuleLabels[i] <=>
               (RuleMatches(i, q, h) /\ \A j \in 1..(i - 1) : ~RuleMatches(j, q, h))
        /\ (Contains(q, KW_cancel) => seg = "churn_risk")

\* C4 witness: a query with "CANCEL" in upper case that also contains "price", on a
\* non-empty history, classified churn_risk.
C4_Witness ==
  /\ pc = "lookup_done"
  /\ state.user_query = IN_cancel_price
  /\ Contains(Lower(state.user_query), KW_price)
  /\ ~Contains(state.user_query, KW_cancel)
  /\ StateGetHistory(state) # <<>>
  /\ state.customer_segment = "churn_risk"

\* C5: in buffer mode the history text built by Ingest in the n-th call is the
\* rendering, oldest first, of the user turn and the assistant turn of each of the
\* n-1 earlier calls, and of nothing else (not the n-th call's own query).
C5_HistoryHoldsEveryEarlierCall ==
  (memory_type = "buffer" /\ pc = "customer_segmentation") =>
    /\ StateGetHistory(state) = RenderHistory(memory)
    /\ Len(memory) = 2 * (Len(calls) - 1)
    /\ \A i \in 1..(Len(calls) - 1) :
         /\ memory[2 * i - 1] = HumanMessage(calls[i])
         /\ memory[2 * i].type = TYPE_ai

\* In buffer mode the memory is the (user, assistant) pairs of the calls that
\* returned, in call order.
C6_MemoryIsThePairs ==
  (agent = "ready" /\ memory_type = "buffer") =>
    /\ Len(memory) = 2 * Len(returned)
    /\ \A i \in 1..Len(returned) :
         /\ memory[2 * i - 1] = [type |-> TYPE_human, content |-> returned[i].input]
         /\ memory[2 * i] = [type |-> TYPE_ai, content |-> returned[i].output]

\* The step on which a buffer-mode call returns appends (user, user_input) and then
\* (assistant, returned text) and keeps the turns stored before.
C6_ReturnStep ==
  (memory_type = "buffer" /\ pc = "finish" /\ pc' = "idle") =>
    /\ result'.kind = "returned"
    /\ Len(memory') = Len(memory) + 2
    /\ SubSeq(memory', 1, Len(memory)) = memory
    /\ memory'[Len(memory) + 1] = [type |-> TYPE_human, content |-> user_input]
    /\ memory'[Len(memory) + 2] = [type |-> TYPE_ai, content |-> result'.value]

\* C6: in buffer mode a call that returns appends exactly the two turns
\* (user, user_input), (assistant, returned text) and leaves the earlier turns as
\* they are; after k returned calls the memory is their k pairs, in call order.
C6_RunAppendsUserThenAssistant ==
  [] C6_MemoryIsThePairs /\ [][C6_ReturnStep]_vars

\* C6 witness: two calls have returned and the memory holds their four turns.
C6_Witness ==
  /\ memory_type = "buffer"
  /\ Len(returned) = 2
  /\ Len(memory) = 4
  /\ result.kind = "returned"
  /\ memory[4].content = result.value

\* The step that sends a request to the completion service.
C7_CallStep ==
  (llm_request' # llm_request /\ llm_request' # <<>>) =>
    /\ pc = "suggestion_generation"
    /\ state.customer_segment \in Segments
    /\ state.customer_segment = GetCustomerSegment(user_input, RenderHistory(memory))
    /\ state'.suggestion = GetSuggestion(state.customer_segment)
    /\ state'.suggestion \in {SUG_churn_risk, SUG_price_sensitive, SUG_high_value_prospect,
                              SUG_new_customer, SUG_standard}
    /\ llm_request'[1].messages = memory \o <<HumanMessage(user_input)>>
    /\ llm_request'[1].system[2] = state.customer_segment
    /\ llm_request'[1].system[4] = state'.suggestion

\* No request of the current call exists before the Respond stage has acted.
C7_NoCallBeforeRespond ==
  pc \in {"query_processing", "customer_segmentation", "suggestion_generation"} =>
    llm_request = <<>>

\* C7: the step that calls the completion service is taken from the Respond stage,
\* after Classify has set the one segment of this call; the request is the stored
\* conversation in order followed by the new user turn, and its system instruction
\* carries that segment and the draft suggestion looked up for it.
C7_RequestAfterClassification ==
  [] C7_NoCallBeforeRespond /\ [][C7_CallStep]_vars

\* C7 witness: a request sent on a non-empty stored conversation.
C7_Witness ==
  /\ pc = "finish"
  /\ llm_request # <<>>
  /\ Len(memory) >= 2
  /\ Len(llm_request[1].messages) = Len(memory) + 1
  /\ llm_request[1].system[2] = "churn_risk"

\* C8: an agent exists only when the credential of the selected provider is set and
\* the memory type is "buffer" or "summary"; a failed construction raised an error,
\* ran no pipeline stage and never called the completion service.
C8_BadConfigFailsAtConstruction ==
  /\ agent = "ready" =>
       /\ memory_type \in {"buffer", "summary"}
       /\ (llm = "gemini" => env.GOOGLE_API_KEY)
       /\ (llm = "openai" => env.OPENAI_API_KEY)
       /\ llm \in {"gemini", "openai"}
  /\ agent = "failed" =>
       /\ result.kind = "raised"
       /\ result.error # ""
  /\ agent # "ready" =>
       /\ pc = "idle"
       /\ calls = <<>>
       /\ llm_request = <<>>
       /\ final_state = <<>>
       /\ memory = <<>>

\* C8 witness: a construction refused for its memory type, both credentials present.
C8_Witness ==
  /\ agent = "failed"
  /\ env.GOOGLE_API_KEY
  /\ env.OPENAI_API_KEY
  /\ result.error = "Invalid memory_type. Choose 'buffer' or 'summary'."

\* C9: within one call the memory is modified exactly once, after the completion
\* call; the three stages leave it unchanged.
C9_MemoryWrittenExactlyOnce ==
  /\ RunEnded => mem_writes = 1
  /\ mem_writes > 0 => llm_request # <<>>
  /\ pc \in {"query_processing", "customer_segmentation", "suggestion_generation",
             "finish"} => mem_writes = 0

\* The segment of the current call against the stored turns and the query.
C10_Classified ==
  (memory_type = "buffer" /\ pc \in {"suggestion_generation", "finish"}) =>
    /\ LeaveStored => state.customer_segment = "churn_risk"
    /\ ( /\ Contains(Lower(user_input), KW_leave)
         /\ ~Contains(Lower(user_input), KW_cancel)
         /\ ~Contains(Lower(user_input), KW_unsubscri)
         /\ ~LeaveStored ) => state.customer_segment # "churn_risk"

\* A stored "leave" is never lost in buffer mode.
C10_LeaveStays ==
  (memory_type = "buffer" /\ LeaveStored) => LeaveStored'

\* C10: in buffer mode, once a stored turn contains "leave" (any case) every later
\* call is classified churn_risk, and the stored "leave" stays; a query with "leave"
\* but without "cancel" and "unsubscri", on a memory without "leave", is not
\* classified churn_risk on the call that submits it.
C10_ChurnRiskIsAbsorbing ==
  [] C10_Classified /\ [][C10_LeaveStays]_vars

\* C10 witness: the call after the one that submitted "I want to leave": the query
\* "hi" is classified churn_risk because of the stored user turn.
C10_Witness ==
  /\ memory_type = "buffer"
  /\ pc = "finish"
  /\ user_input = IN_hi
  /\ Len(memory) = 2
  /\ memory[1].content = IN_leave
  /\ ~Contains(Lower(memory[2].content), KW_leave)
  /\ returned[1].output = memory[2].content
  /\ state.customer_segment = "churn_risk"
====
